---- MODULE Spec2Model ----
(***************************************************************************)
(* A model of the kvstore crate: the word codec (W64), the typed pages     *)
(* (file header, index, leaf), the partition search, the two byte storage  *)
(* back ends and the KvStore front end.                                    *)
(*                                                                         *)
(* Byte buffers are sequences of integers 0..255.  A Rust slice s[a..b]    *)
(* (0-based, half open) is Slice(s, a, b).  A u64 / usize value is kept as *)
(* four 16-bit limbs, least significant first, so that the full 64-bit     *)
(* range (NULL_PAGE, a corrupt len field) is representable and arithmetic  *)
(* overflow is observable.  The target is a 64-bit one (usize = u64).      *)
(*                                                                         *)
(* Four specifications share the module:                                   *)
(*   SpecPartition  the loop of partition(), one iteration per step        *)
(*   SpecPage       Page::new / from_buf / get over one page buffer        *)
(*   SpecStorage    MemoryStorage::read / write                            *)
(*   Spec           KvStore::in_memory / create, then get and set          *)
(***************************************************************************)
EXTENDS Integers, Sequences, FiniteSets, TLC

VARIABLES
    \* partition(): its arguments and its locals
    p_key, p_bytes, p_offsets, p_tie, p_st,
    \* iterations run so far, and size as the last iteration found it
    p_iters, p_prev,
    \* one page buffer, the PAGE_SIZE it is typed with, the build profile,
    \* and the outcome of the last Page operation
    page_size, buf, overflow_checks, pres,
    \* MemoryStorage: the Vec<u8>, the log of writes that returned Ok,
    \* the outcome of the last storage call
    vec, wlog, sres,
    \* KvStore: the storage kind and its bytes, the PAGE_SIZE parameter,
    \* the calls made so far with their results
    kind, medium, kv_page_size, calls

partVars  == <<p_key, p_bytes, p_offsets, p_tie, p_st, p_iters, p_prev>>
pageVars  == <<page_size, buf, overflow_checks, pres>>
memVars   == <<vec, wlog, sres>>
storeVars == <<kind, medium, kv_page_size, calls>>
vars      == <<partVars, pageVars, memVars, storeVars>>

-----------------------------------------------------------------------------
(* Bounds of the model *)

MaxEntries == 3      \* entries of an offset table
MaxWrites  == 2      \* MemoryStorage writes in one run
MaxPos     == 2      \* largest storage position written or read
MaxBuf     == 2      \* longest buffer handed to read / write
MaxCalls   == 2      \* KvStore calls in one run

-----------------------------------------------------------------------------
(* Program constants *)

MIN_PAGE_SIZE == 32
KV_MIN_PAGE_SIZE == 4096
FILE_HEADER_SIZE == 28
LEAF_HEADER_SIZE == 12

Less    == "Less"
Equal   == "Equal"
Greater == "Greater"
Ordering == {Less, Equal, Greater}

-----------------------------------------------------------------------------
(* Byte sequences *)

Min(a, b) == IF a < b THEN a ELSE b
Max(a, b) == IF a < b THEN b ELSE a

Slice(s, a, b) == SubSeq(s, a + 1, b)

Zeros(n) == [i \in 1..n |-> 0]

\* dst with src copied in at 0-based position pos (pos + Len(src) <= Len(dst))
CopyAt(dst, pos, src) ==
    [i \in 1..Len(dst) |->
        IF i > pos /\ i <= pos + Len(src) THEN src[i - pos] ELSE dst[i]]

\* <[u8] as Ord>::cmp: lexicographic, a proper prefix is Less
SliceCmp(a, b) ==
    LET m     == Min(Len(a), Len(b))
        diffs == {i \in 1..m : a[i] # b[i]}
    IN  IF diffs = {}
        THEN IF Len(a) < Len(b) THEN Less
             ELSE IF Len(a) = Len(b) THEN Equal ELSE Greater
        ELSE LET i == CHOOSE d \in diffs : \A e \in diffs : d <= e
             IN  IF a[i] < b[i] THEN Less ELSE Greater

IsPowerOfTwo(n) == \E e \in 0..16 : n = 2^e

-----------------------------------------------------------------------------
(* 64-bit words as four 16-bit limbs, least significant first *)

Limb == 2^16

U64(n) == <<n % Limb, (n \div Limb) % Limb, 0, 0>>

\* !x
U64Not(x) == [i \in 1..4 |-> (Limb - 1) - x[i]]

U64Small(x) == x[3] = 0 /\ x[4] = 0 /\ x[2] < 16384
U64ToInt(x) == x[1] + Limb * x[2]

U64Gt(x, y) ==
    \E i \in 1..4 : x[i] > y[i] /\ \A j \in (i + 1)..4 : x[j] = y[j]

\* x + y in usize arithmetic: the wrapped value and whether it overflowed
UsizeAdd(x, y) ==
    LET c1 == (x[1] + y[1]) \div Limb
        c2 == (x[2] + y[2] + c1) \div Limb
        c3 == (x[3] + y[3] + c2) \div Limb
        c4 == (x[4] + y[4] + c3) \div Limb
    IN  [val |-> << (x[1] + y[1]) % Limb,
                    (x[2] + y[2] + c1) % Limb,
                    (x[3] + y[3] + c2) % Limb,
                    (x[4] + y[4] + c3) % Limb >>,
         ovf |-> c4 > 0]

\* x * 2 in usize arithmetic
UsizeMul2(x) == UsizeAdd(x, x)

\* u64::to_be_bytes
to_be_bytes(x) ==
    << x[4] \div 256, x[4] % 256, x[3] \div 256, x[3] % 256,
       x[2] \div 256, x[2] % 256, x[1] \div 256, x[1] % 256 >>

\* u64::from_be_bytes
from_be_bytes(b) ==
    << b[7] * 256 + b[8], b[5] * 256 + b[6],
       b[3] * 256 + b[4], b[1] * 256 + b[2] >>

W64_new(value) == to_be_bytes(value)
W64_as_u64(w)  == from_be_bytes(w)

NULL_PAGE == U64Not(U64(0))

\* get_u16: the big-endian u16 at 0-based byte offset off of s
get_u16(s, off) == s[off + 1] * 256 + s[off + 2]

u16_be(n) == << n \div 256, n % 256 >>

-----------------------------------------------------------------------------
(* partition(): the locals before the loop, and one iteration *)

\* key_offsets holds n + 1 u16s for n entries: entry k spans
\* bytes[u16 k .. u16 k+1].  Every caller passes at least 2 bytes.
PartitionStart(key_offsets) ==
    LET size == Len(key_offsets) \div 2 - 1
    IN  [left |-> 0, right |-> size, size |-> size,
         status |-> IF 0 < size THEN "loop" ELSE "done"]

PartitionMid(st) == st.left + st.size \div 2

\* PartitionIter with the tie-break dropped: an equal entry always narrows
\* the right boundary
PartitionIter_NoTie(key, bytes, key_offsets, tie_break, st) ==
    LET mid == PartitionMid(st)
        kb  == get_u16(key_offsets, mid * 2 + 0)
        ke  == get_u16(key_offsets, mid * 2 + 2)
    IN  IF kb > ke \/ ke > Len(bytes)
        THEN [st EXCEPT !.status = "panic"]
        ELSE
          LET cmp0  == SliceCmp(Slice(bytes, kb, ke), key)
              cmp   == IF cmp0 = Equal THEN Greater ELSE cmp0
              left  == IF cmp = Less THEN mid + 1 ELSE st.left
              right == IF cmp = Greater THEN mid ELSE st.right
          IN  [left |-> left, right |-> right, size |-> right - left,
               status |-> IF left < right THEN "loop" ELSE "done"]

\* PartitionIter with left = mid in place of left = mid + 1
PartitionIter_NoAdvance(key, bytes, key_offsets, tie_break, st) ==
    LET mid == PartitionMid(st)
        kb  == get_u16(key_offsets, mid * 2 + 0)
        ke  == get_u16(key_offsets, mid * 2 + 2)
    IN  IF kb > ke \/ ke > Len(bytes)
        THEN [st EXCEPT !.status = "panic"]
        ELSE
          LET cmp0  == SliceCmp(Slice(bytes, kb, ke), key)
              cmp   == IF cmp0 = Equal THEN tie_break ELSE cmp0
              left  == IF cmp = Less THEN mid ELSE st.left
              right == IF cmp = Greater THEN mid ELSE st.right
          IN  [left |-> left, right |-> right, size |-> right - left,
               status |-> IF left < right THEN "loop" ELSE "done"]

PartitionIter(key, bytes, key_offsets, tie_break, st) ==
    LET mid == PartitionMid(st)
        kb  == get_u16(key_offsets, mid * 2 + 0)
        ke  == get_u16(key_offsets, mid * 2 + 2)
    IN  IF kb > ke \/ ke > Len(bytes)
        THEN [st EXCEPT !.status = "panic"]     \* bytes[kb..ke] out of range
        ELSE
          LET cmp0  == SliceCmp(Slice(bytes, kb, ke), key)
              cmp   == IF cmp0 = Equal THEN tie_break ELSE cmp0
              left  == IF cmp = Less THEN mid + 1 ELSE st.left
              right == IF cmp = Greater THEN mid ELSE st.right
          IN  [left |-> left, right |-> right, size |-> right - left,
               status |-> IF left < right THEN "loop" ELSE "done"]

\* the whole call, at most fuel iterations ("diverged" when they run out)
RECURSIVE PartitionLoop(_, _, _, _, _, _)
PartitionLoop(key, bytes, key_offsets, tie_break, st, fuel) ==
    IF st.status # "loop" THEN st
    ELSE IF fuel = 0 THEN [st EXCEPT !.status = "diverged"]
    ELSE PartitionLoop(key, bytes, key_offsets, tie_break,
             PartitionIter(key, bytes, key_offsets, tie_break, st), fuel - 1)

partition(key, bytes, key_offsets, tie_break) ==
    PartitionLoop(key, bytes, key_offsets, tie_break,
                  PartitionStart(key_offsets), Len(key_offsets))

-----------------------------------------------------------------------------
(* Pages: Page<PAGE_SIZE, Header> over a PAGE_SIZE-byte buffer *)

FILE_MAGIC  == <<107, 118, 49, 102>>     \* b"kv1f"
INDEX_MAGIC == <<107, 118, 49, 105>>     \* b"kv1i"
LEAF_MAGIC  == <<107, 118, 49, 108>>     \* b"kv1l"

\* repr(C) layout of FileHeaderV1; every field has alignment 1
OFF_MAGIC           == 0
OFF_INDEX_PAGE      == 4
OFF_FIRST_FREE_PAGE == 12
OFF_PAGE_SIZE       == 20
\* LeafHeaderV1 / IndexHeaderV1
OFF_LEN             == 4

\* Page::check: its three assertions hold
PageCheck(PAGE_SIZE) ==
    /\ IsPowerOfTwo(PAGE_SIZE)
    /\ PAGE_SIZE >= MIN_PAGE_SIZE
    /\ PAGE_SIZE >= FILE_HEADER_SIZE

Result(tag, err, b) == [tag |-> tag, err |-> err, buf |-> b]

\* Page<PAGE_SIZE, FileHeaderV1>::new
FilePageNew(b, PAGE_SIZE) ==
    LET b1 == CopyAt(b, OFF_MAGIC, FILE_MAGIC)
        b2 == CopyAt(b1, OFF_FIRST_FREE_PAGE, W64_new(NULL_PAGE))
        b3 == CopyAt(b2, OFF_INDEX_PAGE, W64_new(NULL_PAGE))
        b4 == CopyAt(b3, OFF_PAGE_SIZE, W64_new(U64(PAGE_SIZE)))
    IN  IF PageCheck(PAGE_SIZE) THEN Result("Ok", "none", b4)
        ELSE Result("Panic", "assertion failed", b4)

\* FilePageFromBuf with the page_size comparison left out
FilePageFromBuf_NoSizeCheck(b, PAGE_SIZE) ==
    IF Slice(b, OFF_MAGIC, OFF_MAGIC + 4) # FILE_MAGIC
    THEN Result("Err", "Bad", b)
    ELSE IF ~PageCheck(PAGE_SIZE)
    THEN Result("Panic", "assertion failed", b)
    ELSE Result("Ok", "none", b)

\* Page<PAGE_SIZE, FileHeaderV1>::from_buf
FilePageFromBuf(b, PAGE_SIZE) ==
    IF Slice(b, OFF_MAGIC, OFF_MAGIC + 4) # FILE_MAGIC
    THEN Result("Err", "Bad", b)
    ELSE IF W64_as_u64(Slice(b, OFF_PAGE_SIZE, OFF_PAGE_SIZE + 8))
                # U64(PAGE_SIZE)
    THEN Result("Err", "Bad", b)
    ELSE IF ~PageCheck(PAGE_SIZE)
    THEN Result("Panic", "assertion failed", b)
    ELSE Result("Ok", "none", b)

\* Page<PAGE_SIZE, IndexHeaderV1>::new and Page<PAGE_SIZE, LeafHeaderV1>::new
TypedPageNew(b, PAGE_SIZE, magic) ==
    LET b1 == CopyAt(b, OFF_MAGIC, magic)
    IN  IF PageCheck(PAGE_SIZE) THEN Result("Ok", "none", b1)
        ELSE Result("Panic", "assertion failed", b1)

\* Page<PAGE_SIZE, IndexHeaderV1>::from_buf and the leaf one
TypedPageFromBuf(b, PAGE_SIZE, magic) ==
    IF Slice(b, OFF_MAGIC, OFF_MAGIC + 4) # magic
    THEN Result("Err", "Bad", b)
    ELSE IF ~PageCheck(PAGE_SIZE)
    THEN Result("Panic", "assertion failed", b)
    ELSE Result("Ok", "none", b)

\* the sizes LeafPage::get computes from the len field, in usize arithmetic
LeafSizes(b) ==
    LET len        == W64_as_u64(Slice(b, OFF_LEN, OFF_LEN + 8))
        len2       == UsizeMul2(len)
        k1         == UsizeAdd(U64(LEAF_HEADER_SIZE), len2.val)
        keys_end   == UsizeAdd(k1.val, U64(2))
        v1         == UsizeAdd(keys_end.val, len2.val)
        values_end == UsizeAdd(v1.val, U64(2))
    IN  [len |-> len, keys_end |-> keys_end.val, values_end |-> values_end.val,
         ovf |-> len2.ovf \/ k1.ovf \/ keys_end.ovf \/ v1.ovf \/ values_end.ovf]

\* the guard of LeafPage::get: len > PAGE_SIZE/4 || values_end > PAGE_SIZE
LeafRejects(b, PAGE_SIZE) ==
    \/ U64Gt(LeafSizes(b).len, U64(PAGE_SIZE \div 4))
    \/ U64Gt(LeafSizes(b).values_end, U64(PAGE_SIZE))

LeafKeyOffsets(b) ==
    Slice(b, LEAF_HEADER_SIZE, U64ToInt(LeafSizes(b).keys_end))
LeafValueOffsets(b) ==
    Slice(b, U64ToInt(LeafSizes(b).keys_end), U64ToInt(LeafSizes(b).values_end))
LeafBytes(b, PAGE_SIZE) ==
    Slice(b, U64ToInt(LeafSizes(b).values_end), PAGE_SIZE)

GetResult(tag, err, searched, lower, upper) ==
    [tag |-> tag, err |-> err, searched |-> searched,
     lower |-> lower, upper |-> upper]

\* Page<PAGE_SIZE, LeafHeaderV1>::get.  checks: the build has overflow checks
\* (a debug profile); without them usize arithmetic wraps.
LeafPageGet(b, PAGE_SIZE, key, checks) ==
    IF checks /\ LeafSizes(b).ovf
    THEN GetResult("Panic", "arithmetic overflow", FALSE, 0, 0)
    ELSE IF LeafRejects(b, PAGE_SIZE)
    THEN GetResult("Err", "Bad", FALSE, 0, 0)
    ELSE
      LET lower == partition(key, LeafBytes(b, PAGE_SIZE), LeafKeyOffsets(b), Less)
          upper == partition(key, LeafBytes(b, PAGE_SIZE), LeafKeyOffsets(b), Greater)
      IN  IF lower.status # "done"
          THEN GetResult("Panic", "slice index out of range", FALSE, 0, 0)
          ELSE IF upper.status # "done"
          THEN GetResult("Panic", "slice index out of range", FALSE, 0, 0)
          ELSE GetResult("Panic", "not yet implemented", TRUE,
                         lower.left, upper.left)       \* todo!()

\* Page<PAGE_SIZE, IndexHeaderV1>::get is todo!()
IndexPageGet(b, PAGE_SIZE, key) ==
    GetResult("Panic", "not yet implemented", FALSE, 0, 0)

-----------------------------------------------------------------------------
(* Byte storage.  Positions are small here; a position whose end passes    *)
(* usize::MAX never gives a write that returns Ok (resize cannot allocate). *)

IoResult(tag, bytes, data) == [tag |-> tag, bytes |-> bytes, data |-> data]

\* <MemoryStorage as Storage>::read: &vec[pos..pos+buf.len()] panics when
\* the range ends past vec.len()
MemoryStorageRead(v, pos, n) ==
    IF pos + n > Len(v)
    THEN IoResult("Panic", v, <<>>)
    ELSE IoResult("Ok", v, Slice(v, pos, pos + n))

\* MemoryStorageWrite with the resize done whatever the old length
MemoryStorageWrite_AlwaysResize(v, pos, data) ==
    LET newlen == pos + Len(data)
        grown  == IF newlen > Len(v) THEN v \o Zeros(newlen - Len(v))
                  ELSE SubSeq(v, 1, newlen)
    IN  IoResult("Ok", CopyAt(grown, pos, data), <<>>)

\* <MemoryStorage as Storage>::write
MemoryStorageWrite(v, pos, data) ==
    LET newlen == pos + Len(data)
        grown  == IF newlen > Len(v) THEN v \o Zeros(newlen - Len(v)) ELSE v
    IN  IoResult("Ok", CopyAt(grown, pos, data), <<>>)

\* KvStore::create opens its file with std::fs::File::create, which opens
\* write-only: a read through that handle fails (EBADF)
CreatedFileReadable == FALSE

\* <FileStorage as Storage>::read on the handle KvStore::create made: seek,
\* then read_exact, which fails on an unreadable handle and at end of file
FileStorageRead(f, pos, n) ==
    IF ~CreatedFileReadable \/ pos + n > Len(f)
    THEN IoResult("Err", f, <<>>)
    ELSE IoResult("Ok", f, Slice(f, pos, pos + n))

\* <FileStorage as Storage>::write: seek, then write_all; a seek past the
\* end leaves a hole of zeros
FileStorageWrite(f, pos, data) ==
    LET newlen == pos + Len(data)
        grown  == IF newlen > Len(f) THEN f \o Zeros(newlen - Len(f)) ELSE f
    IN  IoResult("Ok", CopyAt(grown, pos, data), <<>>)

StorageRead(k, m, pos, n) ==
    IF k = "memory" THEN MemoryStorageRead(m, pos, n)
    ELSE FileStorageRead(m, pos, n)

StorageWrite(k, m, pos, data) ==
    IF k = "memory" THEN MemoryStorageWrite(m, pos, data)
    ELSE FileStorageWrite(m, pos, data)

-----------------------------------------------------------------------------
(* KvStore *)

\* page * (PAGE_SIZE as u64) for a power of two PAGE_SIZE
RECURSIVE PageOffset(_, _)
PageOffset(page, PAGE_SIZE) ==
    IF PAGE_SIZE = 1 THEN [val |-> page, ovf |-> FALSE]
    ELSE LET h == PageOffset(page, PAGE_SIZE \div 2)
             d == UsizeMul2(h.val)
         IN  [val |-> d.val, ovf |-> h.ovf \/ d.ovf]

\* KvStore::read of page number page (a u64)
KvStoreRead(k, m, page, PAGE_SIZE, checks) ==
    LET pos == PageOffset(page, PAGE_SIZE)
    IN  IF checks /\ pos.ovf THEN IoResult("Panic", m, <<>>)
        ELSE IF ~U64Small(pos.val)
        THEN \* far past the end of any medium
             IoResult(IF k = "memory" THEN "Panic" ELSE "Err", m, <<>>)
        ELSE StorageRead(k, m, U64ToInt(pos.val), PAGE_SIZE)

\* KvStore::in_memory and KvStore::create: the medium after construction
KvStoreNew(k, PAGE_SIZE) ==
    StorageWrite(k, <<>>, 0, FilePageNew(Zeros(PAGE_SIZE), PAGE_SIZE).buf).bytes

CallResult(tag, val, out) == [tag |-> tag, val |-> val, out |-> out]

\* <KvStore as Get>::get; out is the caller's buffer, which the body shadows
\* and never writes
KvStoreGet(k, m, PAGE_SIZE, key, out, checks) ==
    LET r0 == KvStoreRead(k, m, U64(0), PAGE_SIZE, checks)
    IN  IF r0.tag # "Ok" THEN CallResult(r0.tag, "Bad", out)
        ELSE
          LET fp == FilePageFromBuf(r0.data, PAGE_SIZE)
          IN  IF fp.tag # "Ok" THEN CallResult(fp.tag, "Bad", out)
              ELSE
                LET index_page == W64_as_u64(
                        Slice(r0.data, OFF_INDEX_PAGE, OFF_INDEX_PAGE + 8))
                IN  IF index_page = NULL_PAGE
                    THEN CallResult("Ok", "None", out)
                    ELSE
                      LET r1 == KvStoreRead(k, m, index_page, PAGE_SIZE, checks)
                      IN  IF r1.tag # "Ok" THEN CallResult(r1.tag, "Bad", out)
                          ELSE CallResult("Ok", "None", out)

\* <KvStore as Set>::set is todo!()
KvStoreSet(k, m, PAGE_SIZE, key, value) ==
    CallResult("Panic", "not yet implemented", <<>>)

-----------------------------------------------------------------------------
(* Offset tables as the leaf layout stores them *)

Keys == { <<>>, <<97>>, <<97, 98>>, <<98>> }

Tables == UNION { [1..n -> Keys] : n \in 0..MaxEntries }

RECURSIVE Concat(_)
Concat(ss) == IF ss = <<>> THEN <<>> ELSE Head(ss) \o Concat(Tail(ss))

\* the n + 1 span boundaries of the entries laid end to end
RECURSIVE Boundaries(_)
Boundaries(ss) ==
    IF ss = <<>> THEN <<0>>
    ELSE LET rest == Boundaries(SubSeq(ss, 1, Len(ss) - 1))
         IN  Append(rest, rest[Len(rest)] + Len(ss[Len(ss)]))

\* an offset table as read from a damaged page
Damages == {"none", "reversed", "past"}

Damage(d, offs) ==
    CASE d = "none"     -> offs
      [] d = "reversed" -> IF Len(offs) >= 2
                           THEN [offs EXCEPT ![1] = offs[2], ![2] = offs[1]]
                           ELSE offs
      [] d = "past"     -> [offs EXCEPT ![Len(offs)] = offs[Len(offs)] + 1]

EncodeOffsets(offs) == Concat([i \in 1..Len(offs) |-> u16_be(offs[i])])

-----------------------------------------------------------------------------
(* Idle values of the variables a specification does not use *)

NoPageResult ==
    [op |-> "none", tag |-> "none", err |-> "none", page |-> "none",
     key |-> <<>>, searched |-> FALSE, lower |-> 0, upper |-> 0,
     zeroed |-> FALSE]

IdlePartition ==
    /\ p_key = <<>> /\ p_bytes = <<>> /\ p_offsets = <<0, 0>>
    /\ p_tie = Less /\ p_iters = 0 /\ p_prev = 0
    /\ p_st = [left |-> 0, right |-> 0, size |-> 0, status |-> "done"]

IdlePage ==
    /\ page_size = MIN_PAGE_SIZE /\ buf = <<>> /\ overflow_checks = FALSE
    /\ pres = NoPageResult

NoStorageResult ==
    [op |-> "none", tag |-> "none", pos |-> 0, n |-> 0, data |-> <<>>,
     before |-> <<>>]

IdleMemory == vec = <<>> /\ wlog = <<>> /\ sres = NoStorageResult

IdleStore ==
    /\ kind = "none" /\ medium = <<>> /\ kv_page_size = 0 /\ calls = <<>>

-----------------------------------------------------------------------------
(* SpecPartition: partition() run one loop iteration at a time *)

\* the loop cannot be left running for ever in a finite model
IterCap == MaxEntries + 3

InitPartition ==
    /\ \E entries \in Tables, d \in Damages :
          /\ p_bytes = Concat(entries)
          /\ p_offsets = EncodeOffsets(Damage(d, Boundaries(entries)))
    /\ p_key \in Keys
    /\ p_tie \in Ordering
    /\ p_st = PartitionStart(p_offsets)
    /\ p_iters = 0
    /\ p_prev = 0
    /\ IdlePage /\ IdleMemory /\ IdleStore

\* while left < right { ... }: one iteration
PartitionStep ==
    /\ p_st.status = "loop"
    /\ p_iters < IterCap
    /\ p_st' = PartitionIter(p_key, p_bytes, p_offsets, p_tie, p_st)
    /\ p_iters' = p_iters + 1
    /\ p_prev' = p_st.size
    /\ UNCHANGED <<p_key, p_bytes, p_offsets, p_tie>>
    /\ UNCHANGED <<pageVars, memVars, storeVars>>

NextPartition == PartitionStep

SpecPartition == InitPartition /\ [][NextPartition]_vars

-----------------------------------------------------------------------------
(* Offset tables read back: the entries an offset table addresses *)

NEntries(offs) == Len(offs) \div 2 - 1

SpanStart(offs, k) == get_u16(offs, 2 * k)
SpanEnd(offs, k)   == get_u16(offs, 2 * k + 2)

\* every span lies inside the arena
InRange(bytes, offs) ==
    \A k \in 0..(NEntries(offs) - 1) :
        SpanStart(offs, k) <= SpanEnd(offs, k) /\ SpanEnd(offs, k) <= Len(bytes)

EntryOf(bytes, offs, k) == Slice(bytes, SpanStart(offs, k), SpanEnd(offs, k))

\* unique keys in strictly ascending byte-lexicographic order
Ascending(bytes, offs) ==
    /\ InRange(bytes, offs)
    /\ \A a, b \in 0..(NEntries(offs) - 1) :
          a < b => SliceCmp(EntryOf(bytes, offs, a), EntryOf(bytes, offs, b)) = Less

Holds(bytes, offs, key) ==
    \E k \in 0..(NEntries(offs) - 1) : EntryOf(bytes, offs, k) = key

\* the table partition() is searching
TableLen          == NEntries(p_offsets)
SpansInRange      == InRange(p_bytes, p_offsets)
EntryKey(k)       == EntryOf(p_bytes, p_offsets, k)
StrictlyAscending == Ascending(p_bytes, p_offsets)

\* i splits the table: left of i is < target (or <= when orEqual), from i
\* onward is >= target (or > when orEqual)
Splits(i, orEqual) ==
    /\ i \in 0..TableLen
    /\ \A k \in 0..(i - 1) :
          LET c == SliceCmp(EntryKey(k), p_key)
          IN  c = Less \/ (orEqual /\ c = Equal)
    /\ \A k \in i..(TableLen - 1) :
          LET c == SliceCmp(EntryKey(k), p_key)
          IN  c = Greater \/ (~orEqual /\ c = Equal)

\* C2: on a strictly ascending table, the search in which an equal entry
\* narrows the right boundary (tie_break Greater) ends at the lower bound, the
\* search in which an equal entry moves the left boundary to mid + 1
\* (tie_break Less) ends at the upper bound, and the two differ by 0 or 1.
C2_PartitionBounds ==
    StrictlyAscending =>
        LET lo == partition(p_key, p_bytes, p_offsets, Greater)
            hi == partition(p_key, p_bytes, p_offsets, Less)
        IN  /\ lo.status = "done" /\ hi.status = "done"
            /\ Splits(lo.left, FALSE)
            /\ Splits(hi.left, TRUE)
            /\ hi.left - lo.left \in {0, 1}
            /\ (p_st.status = "done" /\ p_tie = Greater) => p_st.left = lo.left
            /\ (p_st.status = "done" /\ p_tie = Less) => p_st.left = hi.left

\* a finished upper-bound search of a three-entry ascending table that holds
\* the target
C2_Witness ==
    /\ StrictlyAscending /\ TableLen = 3
    /\ p_tie = Less /\ p_st.status = "done" /\ p_iters >= 2
    /\ \E k \in 0..(TableLen - 1) : EntryKey(k) = p_key
    /\ p_st.left - partition(p_key, p_bytes, p_offsets, Greater).left = 1

\* the loop's bounds, progress and end, whatever the table holds
LoopContract ==
    /\ p_st.status = "loop" =>
          /\ 0 <= p_st.left
          /\ p_st.left <= PartitionMid(p_st)
          /\ PartitionMid(p_st) < p_st.right
          /\ p_st.right <= TableLen
    /\ (p_iters > 0 /\ p_st.status # "panic") => p_st.size < p_prev
    /\ p_iters <= TableLen
    /\ p_st.status = "done" => p_st.left \in 0..TableLen
    \* a span with start > end or end past the arena stops the call
    /\ p_st.status = "panic" => ~SpansInRange

\* C10 as stated: LoopContract for every tie_break, Equal included.
C10_Original == LoopContract

\* C10 amended: LoopContract for tie_break Less and Greater.
C10_PartitionTerminates == p_tie \in {Less, Greater} => LoopContract

\* a search of three entries that ended after two iterations
C10_Witness ==
    /\ p_tie \in {Less, Greater} /\ TableLen = 3
    /\ p_st.status = "done" /\ p_iters = 2

-----------------------------------------------------------------------------
(* SpecPage: the Page operations over one buffer *)

\* PAGE_SIZE parameters: the smallest legal one, one that is no power of
\* two, and the smallest a KvStore accepts
PageSizes == {MIN_PAGE_SIZE, MIN_PAGE_SIZE + 16, KV_MIN_PAGE_SIZE}

\* page_size fields a stored file header may carry
StoredPageSizes == PageSizes \cup {2 * MIN_PAGE_SIZE, 2 * KV_MIN_PAGE_SIZE}

\* len fields a stored leaf may carry beside the true one: too many for the
\* page, more than PAGE_SIZE/4, and values whose doubling overflows or nearly
LenFields(n) ==
    { U64(n), U64(5), U64(9),
      <<0, 0, 0, 2^14>>, <<0, 0, 0, 2^15>>, <<2^16 - 1, 2^16 - 1, 2^16 - 1, 2^15 - 1>>,
      U64Not(U64(0)) }

PadTo(b, n) == b \o Zeros(n - Len(b))

FileImage(ps, stored) ==
    CopyAt(FilePageNew(Zeros(ps), ps).buf, OFF_PAGE_SIZE, W64_new(U64(stored)))

\* a leaf holding entries (keys only, every value empty)
LeafImage(ps, len, entries, d) ==
    LET arena == Concat(entries)
        koffs == EncodeOffsets(Damage(d, Boundaries(entries)))
        voffs == EncodeOffsets([i \in 1..(Len(entries) + 1) |-> Len(arena)])
    IN  PadTo(LEAF_MAGIC \o W64_new(len) \o koffs \o voffs \o arena, ps)

LeafFits(ps, entries) ==
    LEAF_HEADER_SIZE + 4 * Len(entries) + 4 + Len(Concat(entries)) <= ps

PageImages(ps) ==
    {Zeros(ps)}
    \cup { FileImage(ps, stored) : stored \in StoredPageSizes }
    \cup { CopyAt(FileImage(ps, ps), OFF_MAGIC, INDEX_MAGIC) }
    \cup IF ps >= KV_MIN_PAGE_SIZE THEN {}
         ELSE UNION { { LeafImage(ps, len, entries, "none") :
                            len \in LenFields(Len(entries)) }
                      \cup { LeafImage(ps, U64(Len(entries)), entries, d) :
                            d \in Damages } :
                      entries \in {t \in Tables : LeafFits(ps, t)} }

InitPage ==
    /\ page_size \in PageSizes
    /\ buf \in PageImages(page_size)
    /\ overflow_checks \in BOOLEAN
    /\ pres = NoPageResult
    /\ IdlePartition /\ IdleMemory /\ IdleStore

\* a panic unwinds the caller: nothing runs after it
PageRunning == pres.tag # "Panic"

Wrapped(op, r, page) ==
    [NoPageResult EXCEPT !.op = op, !.tag = r.tag, !.err = r.err,
                         !.page = IF r.tag = "Ok" THEN page ELSE "none",
                         !.zeroed = (buf = Zeros(page_size))]

FileNew ==
    /\ PageRunning
    /\ LET r == FilePageNew(buf, page_size)
       IN  buf' = r.buf /\ pres' = Wrapped("FilePage::new", r, "file")
    /\ UNCHANGED <<page_size, overflow_checks, partVars, memVars, storeVars>>

FileFromBuf ==
    /\ PageRunning
    /\ LET r == FilePageFromBuf(buf, page_size)
       IN  buf' = r.buf /\ pres' = Wrapped("FilePage::from_buf", r, "file")
    /\ UNCHANGED <<page_size, overflow_checks, partVars, memVars, storeVars>>

IndexNew ==
    /\ PageRunning
    /\ LET r == TypedPageNew(buf, page_size, INDEX_MAGIC)
       IN  buf' = r.buf /\ pres' = Wrapped("IndexPage::new", r, "index")
    /\ UNCHANGED <<page_size, overflow_checks, partVars, memVars, storeVars>>

IndexFromBuf ==
    /\ PageRunning
    /\ LET r == TypedPageFromBuf(buf, page_size, INDEX_MAGIC)
       IN  buf' = r.buf /\ pres' = Wrapped("IndexPage::from_buf", r, "index")
    /\ UNCHANGED <<page_size, overflow_checks, partVars, memVars, storeVars>>

LeafNew ==
    /\ PageRunning
    /\ LET r == TypedPageNew(buf, page_size, LEAF_MAGIC)
       IN  buf' = r.buf /\ pres' = Wrapped("LeafPage::new", r, "leaf")
    /\ UNCHANGED <<page_size, overflow_checks, partVars, memVars, storeVars>>

LeafFromBuf ==
    /\ PageRunning
    /\ LET r == TypedPageFromBuf(buf, page_size, LEAF_MAGIC)
       IN  buf' = r.buf /\ pres' = Wrapped("LeafPage::from_buf", r, "leaf")
    /\ UNCHANGED <<page_size, overflow_checks, partVars, memVars, storeVars>>

Got(op, r, key) ==
    [NoPageResult EXCEPT !.op = op, !.tag = r.tag, !.err = r.err,
                         !.page = pres.page, !.key = key,
                         !.searched = r.searched,
                         !.lower = r.lower, !.upper = r.upper]

LeafGet ==
    /\ PageRunning /\ pres.page = "leaf"
    /\ \E key \in Keys :
          pres' = Got("LeafPage::get",
                      LeafPageGet(buf, page_size, key, overflow_checks), key)
    /\ UNCHANGED <<page_size, buf, overflow_checks, partVars, memVars, storeVars>>

IndexGet ==
    /\ PageRunning /\ pres.page = "index"
    /\ \E key \in Keys :
          pres' = Got("IndexPage::get", IndexPageGet(buf, page_size, key), key)
    /\ UNCHANGED <<page_size, buf, overflow_checks, partVars, memVars, storeVars>>

NextPage ==
    \/ FileNew \/ FileFromBuf
    \/ IndexNew \/ IndexFromBuf \/ IndexGet
    \/ LeafNew \/ LeafFromBuf \/ LeafGet

SpecPage == InitPage /\ [][NextPage]_vars

-----------------------------------------------------------------------------
(* The leaf in buf, as LeafPage::get slices it *)

LeafArena   == LeafBytes(buf, page_size)
LeafOffsets == LeafKeyOffsets(buf)

\* the len field or the spans of the key offset table do not fit the page
LeafCorrupt ==
    IF LeafRejects(buf, page_size) THEN TRUE
    ELSE ~InRange(LeafArena, LeafOffsets)

\* C3: the values LeafPage::get names lower and upper delimit the match
\* range [lower, upper) of a strictly ascending leaf: length 1 with the key
\* at lower when the key is present, length 0 when it is absent.
C3_LowerUpperRange ==
    (pres.op = "LeafPage::get" /\ pres.searched
        /\ Ascending(LeafArena, LeafOffsets)) =>
        /\ pres.lower <= pres.upper
        /\ Holds(LeafArena, LeafOffsets, pres.key) =>
              /\ pres.upper - pres.lower = 1
              /\ EntryOf(LeafArena, LeafOffsets, pres.lower) = pres.key
        /\ ~Holds(LeafArena, LeafOffsets, pres.key) =>
              pres.upper - pres.lower = 0

\* C4: LeafPage::get on a corrupt leaf (len field too large for the page,
\* or a key span with start > end or end past the arena) ends with an error
\* result, never with a panic or an overflow.
C4_CorruptLeafIsError ==
    (pres.op = "LeafPage::get" /\ LeafCorrupt) => pres.tag = "Err"

\* the image the crate's own test expects of a fresh 32-byte file header
TestImage ==
    <<107, 118, 115, 116, 111, 114, 101, 32>>
        \o [i \in 1..16 |-> 255] \o Zeros(8)

\* C8: FilePage::new over a zeroed 32-byte buffer leaves "kvstore ", then
\* sixteen 0xff bytes (root_page, first_free_page), then zeros.
C8_FreshHeaderImage ==
    (pres.op = "FilePage::new" /\ pres.zeroed /\ page_size = MIN_PAGE_SIZE) =>
        buf = TestImage

\* buf has the file magic and a page_size field other than PAGE_SIZE
StoredSizeMismatch ==
    /\ Slice(buf, OFF_MAGIC, OFF_MAGIC + 4) = FILE_MAGIC
    /\ W64_as_u64(Slice(buf, OFF_PAGE_SIZE, OFF_PAGE_SIZE + 8)) # U64(page_size)

\* what from_buf answers for a page with a bad magic
BadMagicAnswer == FilePageFromBuf(Zeros(page_size), page_size)

-----------------------------------------------------------------------------
(* SpecStorage: MemoryStorage read and written from an empty Vec *)

\* buffers written: runs of consecutive byte values from a first byte
FirstBytes == {0, 7}

Buffers == { [i \in 1..n |-> b + i - 1] : n \in 0..MaxBuf, b \in FirstBytes }

InitStorage ==
    /\ vec = <<>> /\ wlog = <<>> /\ sres = NoStorageResult
    /\ IdlePartition /\ IdlePage /\ IdleStore

StorageRunning == sres.tag # "Panic"

MemWrite ==
    /\ StorageRunning
    /\ Len(wlog) < MaxWrites
    /\ \E pos \in 0..MaxPos, data \in Buffers :
          LET r == MemoryStorageWrite(vec, pos, data)
          IN  /\ vec' = r.bytes
              /\ wlog' = IF r.tag = "Ok"
                         THEN Append(wlog, [pos |-> pos, data |-> data])
                         ELSE wlog
              /\ sres' = [op |-> "write", tag |-> r.tag, pos |-> pos,
                          n |-> Len(data), data |-> data, before |-> vec]
    /\ UNCHANGED <<partVars, pageVars, storeVars>>

MemRead ==
    /\ StorageRunning
    /\ \E pos \in 0..MaxPos, n \in 0..MaxBuf :
          LET r == MemoryStorageRead(vec, pos, n)
          IN  /\ vec' = r.bytes
              /\ sres' = [op |-> "read", tag |-> r.tag, pos |-> pos,
                          n |-> n, data |-> r.data, before |-> vec]
    /\ UNCHANGED <<wlog, partVars, pageVars, storeVars>>

NextStorage == MemWrite \/ MemRead

SpecStorage == InitStorage /\ [][NextStorage]_vars

\* the last-writer-wins reference, from the log of writes alone
RECURSIVE Extent(_)
Extent(log) ==
    IF log = <<>> THEN 0
    ELSE Max(Extent(SubSeq(log, 1, Len(log) - 1)),
             log[Len(log)].pos + Len(log[Len(log)].data))

Covering(log, i) ==
    {k \in 1..Len(log) : log[k].pos <= i /\ i < log[k].pos + Len(log[k].data)}

\* the byte at 0-based position i
RefByte(log, i) ==
    IF Covering(log, i) = {} THEN 0
    ELSE LET k == CHOOSE c \in Covering(log, i) :
                      \A e \in Covering(log, i) : e <= c
         IN  log[k].data[i - log[k].pos + 1]

\* C7: after writes that returned Ok the Vec is the reference: its length
\* is the largest pos + len written, every byte is the latest write covering
\* it or 0, a write touches nothing outside [pos, pos+len) and never
\* shortens the Vec, and a read inside the extent returns the reference bytes.
C7_LastWriterWins ==
    /\ Len(vec) = Extent(wlog)
    /\ \A i \in 0..(Len(vec) - 1) : vec[i + 1] = RefByte(wlog, i)
    /\ sres.op = "write" =>
          /\ sres.tag = "Ok"
          /\ Len(vec) >= Len(sres.before)
          /\ \A i \in 0..(Len(sres.before) - 1) :
                (i < sres.pos \/ i >= sres.pos + sres.n)
                    => vec[i + 1] = sres.before[i + 1]
    /\ (sres.op = "read" /\ sres.pos + sres.n <= Extent(wlog)) =>
          /\ sres.tag = "Ok"
          /\ sres.data = [j \in 1..sres.n |-> RefByte(wlog, sres.pos + j - 1)]

\* a write past the end, then a shorter overwrite inside, then a read across
\* the zero-filled gap
C7_Witness ==
    /\ Len(wlog) = 2
    /\ wlog[1].pos > 0 /\ wlog[1].data # <<>>
    /\ wlog[2].pos + Len(wlog[2].data) < Extent(wlog)
    /\ wlog[2].data # <<>> /\ wlog[2].data[1] = 7
    /\ sres.op = "read" /\ sres.tag = "Ok" /\ sres.pos = 0 /\ sres.n = 2

\* C6: a read whose range ends past the extent returns Err, does not panic
\* and leaves the stored bytes alone.
C6_ReadPastEndIsErr ==
    (sres.op = "read" /\ sres.pos + sres.n > Len(sres.before)) =>
        /\ sres.tag = "Err"
        /\ vec = sres.before

-----------------------------------------------------------------------------
(* Spec: a KvStore fresh from in_memory or create, then get and set *)

KvPageSizes == {KV_MIN_PAGE_SIZE, 2 * KV_MIN_PAGE_SIZE}

Values == Keys

Init ==
    /\ kind \in {"memory", "file"}
    /\ kv_page_size \in KvPageSizes
    /\ medium = KvStoreNew(kind, kv_page_size)
    /\ calls = <<>>
    /\ overflow_checks \in BOOLEAN
    /\ page_size = MIN_PAGE_SIZE /\ buf = <<>> /\ pres = NoPageResult
    /\ IdlePartition /\ IdleMemory

StoreRunning ==
    /\ Len(calls) < MaxCalls
    /\ \A i \in 1..Len(calls) : calls[i].tag # "Panic"

Get ==
    /\ StoreRunning
    /\ \E key \in Keys, outlen \in 0..MaxBuf :
          LET r == KvStoreGet(kind, medium, kv_page_size, key,
                              Zeros(outlen), overflow_checks)
          IN  calls' = Append(calls,
                  [op |-> "get", key |-> key, arg |-> Zeros(outlen),
                   tag |-> r.tag, val |-> r.val, out |-> r.out])
    /\ UNCHANGED <<kind, medium, kv_page_size, partVars, pageVars, memVars>>

Set ==
    /\ StoreRunning
    /\ \E key \in Keys, value \in Values :
          LET r == KvStoreSet(kind, medium, kv_page_size, key, value)
          IN  calls' = Append(calls,
                  [op |-> "set", key |-> key, arg |-> value,
                   tag |-> r.tag, val |-> r.val, out |-> r.out])
    /\ UNCHANGED <<kind, medium, kv_page_size, partVars, pageVars, memVars>>

Next == Get \/ Set

Spec == Init /\ [][Next]_vars

\* key was the subject of a set that returned Ok among the first n calls
Inserted(key, n) ==
    \E i \in 1..n : calls[i].op = "set" /\ calls[i].key = key /\ calls[i].tag = "Ok"

\* C1: set returns Ok(()), and the get that follows it for the same key with
\* a buffer long enough returns Ok(Some(len(v))) with the value in the buffer.
C1_SetThenGet ==
    \A i \in 1..Len(calls) :
        calls[i].op = "set" =>
            /\ calls[i].tag = "Ok"
            /\ (/\ i < Len(calls) /\ calls[i + 1].op = "get"
                /\ calls[i + 1].key = calls[i].key
                /\ Len(calls[i + 1].arg) >= Len(calls[i].arg)) =>
                  /\ calls[i + 1].tag = "Ok"
                  /\ calls[i + 1].val = Len(calls[i].arg)
                  /\ SubSeq(calls[i + 1].out, 1, Len(calls[i].arg)) = calls[i].arg

\* C9: on a store from in_memory or create, while every call so far
\* succeeded, get of a key never inserted returns Ok(None), not an error.
C9_AbsentIsNone ==
    \A i \in 1..Len(calls) :
        (calls[i].op = "get" /\ ~Inserted(calls[i].key, i - 1)) =>
            calls[i].tag = "Ok" /\ calls[i].val = "None"

====
